---- MODULE Spec2Model ----
(***************************************************************************)
(* Interrupt-driven concurrency core of the kernel: the interrupt masking  *)
(* counter and the exclusive-access cells (ksync), the asynchronous        *)
(* NS16550a driver with its interrupt dispatcher, and the executor loop.   *)
(***************************************************************************)
EXTENDS Integers, Sequences, FiniteSets

\* ------------------------------------------------------------------ bounds
\* most guards the thread-mode code outside the driver holds at once
MaxGuards == 2
\* bytes the hardware receiver can hold before the next one is lost
MaxFifo == 1
\* most tasks the initializer spawns
MaxSpawn == 2
\* most wakers write_waker_list holds when polls come without a wake
MaxWaiters == 3

\* ------------------------------------------------------------ constant sets
\* the UPIntrFreeCell instances: the driver's cell and one other kernel cell
IntrFreeCells == {"uart", "other"}
\* the UPSafeCell instances
SafeCells == {"safe"}
Cells == IntrFreeCells \cup SafeCells

\* the tasks the initializer may spawn: two read and two write operations
Readers == {"R1", "R2"}
Writers == {"W1", "W2"}
Tasks == Readers \cup Writers

\* bytes the line can deliver (0x48, 0x49) and the absence of a byte
Bytes == {72, 73}
NoByte == 0
\* AsyncCharWriter.ch of each write operation (0x41, 0x42)
Ch(w) == IF w = "W1" THEN 65 ELSE 66

Idle == [op |-> "idle", cell |-> "none"]

VARIABLES
    sie,                         \* hardware interrupt enable of the core
    nested_level,                \* IntrMaskingInfo.nested_level
    intr_enable_before_masking,  \* IntrMaskingInfo.intr_enable_before_masking
    borrowed,                    \* RefCell borrow flag of each cell
    guards,                      \* live guards thread-mode code holds on each cell
    mid,                         \* thread-mode code inside exclusive_access / drop
    panicked,                    \* a panic has stopped the kernel
    sie0,                        \* history: sie before the outermost enter()
    rbr,                         \* bytes waiting in the receiver (LSR.DATA_AVAILABLE)
    thr_empty,                   \* LSR.THR_EMPTY
    tx_log,                      \* history: bytes written to THR, in order
    inited,                      \* NS16550aRaw::init has run (IER.RX_AVAILABLE)
    read_waker_list,
    write_waker_list,
    read_buffer,
    tstate,                      \* each task: unspawned, new, suspended, done
    result,                      \* output of each completed read operation
    woke_with,                   \* history: byte pushed when the reader was woken
    runq,                        \* executor run queue (woken, not yet dequeued)
    batch,                       \* tasks dequeued by the poll in progress
    pc,                          \* position of Executor::run
    SIGNAL_WORK_THREAD_MODE,
    SIGNAL_WORK_FINISH

syncvars == <<sie, nested_level, intr_enable_before_masking, borrowed, guards,
              mid, panicked, sie0>>
hwvars == <<rbr, thr_empty, tx_log, inited>>
devvars == <<read_waker_list, write_waker_list, read_buffer>>
taskvars == <<tstate, result, woke_with>>
execvars == <<runq, batch, pc, SIGNAL_WORK_THREAD_MODE, SIGNAL_WORK_FINISH>>
vars == <<syncvars, hwvars, devvars, taskvars, execvars>>

\* ------------------------------------------------- IntrMaskingInfo (ksync)
Masking == [sie |-> sie, nested_level |-> nested_level,
            iebm |-> intr_enable_before_masking]

SetMasking(m) ==
    /\ sie' = m.sie
    /\ nested_level' = m.nested_level
    /\ intr_enable_before_masking' = m.iebm

\* enter() that records the prior enablement at every depth
enterOverwrite(m) ==
    [sie |-> FALSE,
     nested_level |-> m.nested_level + 1,
     iebm |-> m.sie]

\* enter() that counts only the outermost acquisition
enterOutermostOnly(m) ==
    [sie |-> FALSE,
     nested_level |-> IF m.nested_level = 0 THEN 1 ELSE m.nested_level,
     iebm |-> IF m.nested_level = 0 THEN m.sie ELSE m.iebm]

\* IntrMaskingInfo::enter
enter(m) ==
    [sie |-> FALSE,
     nested_level |-> m.nested_level + 1,
     iebm |-> IF m.nested_level = 0 THEN m.sie ELSE m.iebm]

\* exit() that re-enables without looking at the nesting depth
exitAnyDepth(m) ==
    [sie |-> IF m.iebm THEN TRUE ELSE m.sie,
     nested_level |-> m.nested_level - 1,
     iebm |-> m.iebm]

\* exit() that forgets to decrement
exitNoDecrement(m) ==
    [sie |-> IF m.nested_level = 0 /\ m.iebm THEN TRUE ELSE m.sie,
     nested_level |-> m.nested_level,
     iebm |-> m.iebm]

\* IntrMaskingInfo::exit
exit(m) ==
    [sie |-> IF m.nested_level - 1 = 0 /\ m.iebm THEN TRUE ELSE m.sie,
     nested_level |-> m.nested_level - 1,
     iebm |-> m.iebm]

\* a borrow_mut that never refuses
BorrowUnchecked(c) == TRUE

\* RefCell::borrow_mut succeeds only when no borrow is live
BorrowOk(c) == ~borrowed[c]

\* number of live guards thread-mode code holds
Held == guards["uart"] + guards["other"] + guards["safe"]
\* guards of interrupt-free cells held by thread-mode code
IntrGuards == guards["uart"] + guards["other"]
\* enter() calls of thread-mode code not yet matched by an exit()
Depth == IntrGuards + (IF mid.op = "idle" THEN 0 ELSE 1)

TypeOK ==
    /\ sie \in BOOLEAN /\ intr_enable_before_masking \in BOOLEAN
    /\ nested_level \in Nat
    /\ borrowed \in [Cells -> BOOLEAN]
    /\ guards \in [Cells -> Nat]
    /\ mid \in [op : {"idle", "acq", "rel"}, cell : Cells \cup {"none"}]
    /\ panicked \in BOOLEAN /\ sie0 \in BOOLEAN
    /\ rbr \in Seq(Bytes) /\ Len(rbr) <= MaxFifo
    /\ thr_empty \in BOOLEAN /\ inited \in BOOLEAN
    /\ tx_log \in Seq({Ch(w) : w \in Writers})
    /\ read_waker_list \in Seq(Readers)
    /\ write_waker_list \in Seq(Writers)
    /\ read_buffer \in Seq(Bytes)
    /\ tstate \in [Tasks -> {"unspawned", "new", "suspended", "done"}]
    /\ result \in [Readers -> Bytes \cup {NoByte}]
    /\ woke_with \in [Readers -> Bytes \cup {NoByte}]
    /\ runq \subseteq Tasks /\ batch \subseteq Tasks
    /\ pc \in {"boot", "run", "poll", "polling", "chk_work", "clear",
               "pre_wfi", "halted", "done"}
    /\ SIGNAL_WORK_THREAD_MODE \in BOOLEAN /\ SIGNAL_WORK_FINISH \in BOOLEAN

\* State after construction: IntrMaskingInfo::new, NS16550aRaw::new, the two
\* AtomicBool statics; interrupts may be on or off, the transmitter busy or not.
Init ==
    /\ sie \in BOOLEAN
    /\ nested_level = 0
    /\ intr_enable_before_masking = FALSE
    /\ borrowed = [c \in Cells |-> FALSE]
    /\ guards = [c \in Cells |-> 0]
    /\ mid = Idle
    /\ panicked = FALSE
    /\ sie0 = sie
    /\ rbr = <<>>
    /\ thr_empty \in BOOLEAN
    /\ tx_log = <<>>
    /\ inited = FALSE
    /\ read_waker_list = <<>>
    /\ write_waker_list = <<>>
    /\ read_buffer = <<>>
    /\ tstate = [t \in Tasks |-> "unspawned"]
    /\ result = [r \in Readers |-> NoByte]
    /\ woke_with = [r \in Readers |-> NoByte]
    /\ runq = {}
    /\ batch = {}
    /\ pc = "boot"
    /\ SIGNAL_WORK_THREAD_MODE = FALSE
    /\ SIGNAL_WORK_FINISH = FALSE

\* --------------------------------------- thread-mode use of the cells (ksync)
\* thread-mode code other than the statements of Executor::run's loop runs
\* before the loop, inside a task being polled, or after the loop
ThreadCode == pc \in {"boot", "run", "polling", "done"}

\* UPIntrFreeCell::exclusive_access, first half: INTR_MASKING_INFO.enter()
ExclusiveAccessEnter(c) ==
    /\ ~panicked /\ mid = Idle /\ Held < MaxGuards /\ ThreadCode
    /\ c \in IntrFreeCells
    /\ SetMasking(enter(Masking))
    /\ sie0' = IF Depth = 0 THEN sie ELSE sie0
    /\ mid' = [op |-> "acq", cell |-> c]
    /\ UNCHANGED <<borrowed, guards, panicked>>
    /\ UNCHANGED <<hwvars, devvars, taskvars, execvars>>

\* UPIntrFreeCell::exclusive_access, second half: self.inner.borrow_mut()
ExclusiveAccessBorrow ==
    /\ ~panicked /\ mid.op = "acq"
    /\ IF BorrowOk(mid.cell)
       THEN /\ borrowed' = [borrowed EXCEPT ![mid.cell] = TRUE]
            /\ guards' = [guards EXCEPT ![mid.cell] = @ + 1]
            /\ mid' = Idle
            /\ UNCHANGED panicked
       ELSE /\ panicked' = TRUE
            /\ UNCHANGED <<borrowed, guards, mid>>
    /\ UNCHANGED <<sie, nested_level, intr_enable_before_masking, sie0>>
    /\ UNCHANGED <<hwvars, devvars, taskvars, execvars>>

\* a drop that calls exit() while the borrow is still live
DropExitFirst(c) ==
    /\ ~panicked /\ mid = Idle /\ ThreadCode
    /\ c \in IntrFreeCells /\ guards[c] > 0
    /\ SetMasking(exit(Masking))
    /\ guards' = [guards EXCEPT ![c] = @ - 1]
    /\ mid' = [op |-> "rel", cell |-> c]
    /\ UNCHANGED <<borrowed, panicked, sie0>>
    /\ UNCHANGED <<hwvars, devvars, taskvars, execvars>>

\* Drop for UPIntrRefMut, first half: self.0 = None releases the borrow
DropBorrow(c) ==
    /\ ~panicked /\ mid = Idle /\ ThreadCode
    /\ c \in IntrFreeCells /\ guards[c] > 0
    /\ borrowed' = [borrowed EXCEPT ![c] = FALSE]
    /\ guards' = [guards EXCEPT ![c] = @ - 1]
    /\ mid' = [op |-> "rel", cell |-> c]
    /\ UNCHANGED <<sie, nested_level, intr_enable_before_masking, panicked, sie0>>
    /\ UNCHANGED <<hwvars, devvars, taskvars, execvars>>

\* Drop for UPIntrRefMut, second half: INTR_MASKING_INFO.exit()
DropExit ==
    /\ ~panicked /\ mid.op = "rel"
    /\ SetMasking(exit(Masking))
    /\ mid' = Idle
    /\ sie0' = IF IntrGuards = 0 THEN sie' ELSE sie0
    /\ UNCHANGED <<borrowed, guards, panicked>>
    /\ UNCHANGED <<hwvars, devvars, taskvars, execvars>>

\* UPIntrFreeCell::exclusive_session called from thread mode: the guard is
\* taken, the closure runs and the guard is dropped on return; the closure
\* touches nothing but the cell's value
ExclusiveSession(c) ==
    /\ ~panicked /\ mid = Idle /\ ThreadCode
    /\ c \in IntrFreeCells
    /\ IF BorrowOk(c)
       THEN /\ SetMasking(exit(enter(Masking)))
            /\ sie0' = IF Depth = 0 THEN sie' ELSE sie0
            /\ UNCHANGED <<borrowed, guards, mid, panicked>>
       ELSE /\ SetMasking(enter(Masking))
            /\ panicked' = TRUE
            /\ UNCHANGED <<borrowed, guards, mid, sie0>>
    /\ UNCHANGED <<hwvars, devvars, taskvars, execvars>>

\* UPSafeCell::exclusive_access: RefCell::borrow_mut, no masking
SafeExclusiveAccess(c) ==
    /\ ~panicked /\ mid = Idle /\ Held < MaxGuards /\ ThreadCode
    /\ c \in SafeCells
    /\ IF BorrowOk(c)
       THEN /\ borrowed' = [borrowed EXCEPT ![c] = TRUE]
            /\ guards' = [guards EXCEPT ![c] = @ + 1]
            /\ UNCHANGED panicked
       ELSE /\ panicked' = TRUE
            /\ UNCHANGED <<borrowed, guards>>
    /\ UNCHANGED <<sie, nested_level, intr_enable_before_masking, mid, sie0>>
    /\ UNCHANGED <<hwvars, devvars, taskvars, execvars>>

\* the RefMut of a UPSafeCell goes out of scope
SafeDrop(c) ==
    /\ ~panicked /\ mid = Idle /\ ThreadCode
    /\ c \in SafeCells /\ guards[c] > 0
    /\ borrowed' = [borrowed EXCEPT ![c] = FALSE]
    /\ guards' = [guards EXCEPT ![c] = @ - 1]
    /\ UNCHANGED <<sie, nested_level, intr_enable_before_masking, mid, panicked, sie0>>
    /\ UNCHANGED <<hwvars, devvars, taskvars, execvars>>

\* ------------------------------------------------------ NS16550aRaw probes
\* NS16550aRaw::read finds LSR.DATA_AVAILABLE set
data_available == rbr # <<>>
\* NS16550aRaw::writable: LSR.THR_EMPTY
writable == thr_empty

\* ------------------------------------------------- wakers and the run queue
\* a task already queued for polling ignores a further wake
Queued(t) == t \in runq \cup batch
\* the tasks a wake of each task in ts newly enqueues (each one calls __pender)
Enqueued(ts) == {t \in ts : ~Queued(t) /\ tstate[t] \in {"new", "suspended"}}

\* Waker::will_wake against every entry of read_waker_list
will_wake(r) == \E i \in 1..Len(read_waker_list) : read_waker_list[i] = r

\* -------------------------------------------------- AsyncNS16550a (driver)
\* a guarded access of the driver's cell from thread mode that panics:
\* enter() has run, borrow_mut() found the cell borrowed
UartPanic ==
    /\ SetMasking(enter(Masking))
    /\ panicked' = TRUE
    /\ UNCHANGED <<borrowed, guards, mid, sie0>>
    /\ UNCHANGED <<hwvars, devvars, taskvars, execvars>>

\* the masking state after a guard of the driver's cell was taken and dropped
UartSession ==
    /\ SetMasking(exit(enter(Masking)))
    /\ sie0' = IF Depth = 0 THEN sie' ELSE sie0
    /\ UNCHANGED <<borrowed, guards, mid, panicked>>

\* AsyncNS16550a::init, called before the executor runs
DeviceInit ==
    /\ ~panicked /\ mid = Idle /\ pc = "boot"
    /\ IF BorrowOk("uart")
       THEN /\ UartSession
            /\ inited' = TRUE
            /\ pc' = "run"
            /\ UNCHANGED <<rbr, thr_empty, tx_log>>
            /\ UNCHANGED <<devvars, taskvars>>
            /\ UNCHANGED <<runq, batch, SIGNAL_WORK_THREAD_MODE, SIGNAL_WORK_FINISH>>
       ELSE UartPanic

\* a poll that takes the transmitter as ready without reading LSR
WriterAlwaysReady == TRUE

\* the write operation's poll finds LSR.THR_EMPTY set
WriterReady == thr_empty
\* a registration that skips a waker already in the list, as the reader's does
WriterRegisterOnce(w) ==
    IF \E i \in 1..Len(write_waker_list) : write_waker_list[i] = w
    THEN write_waker_list ELSE Append(write_waker_list, w)
\* a poll that suspends without leaving its waker
WriterRegisterNone(w) == write_waker_list
\* what the write operation's poll leaves in write_waker_list when not ready
WriterRegister(w) == Append(write_waker_list, w)

\* AsyncCharWriter::poll, run by the executor for a dequeued task
WriterPoll(w) ==
    /\ ~panicked /\ mid = Idle /\ pc = "polling"
    /\ w \in Writers /\ w \in batch
    /\ IF ~BorrowOk("uart") THEN UartPanic
       ELSE
        /\ UartSession
        /\ batch' = batch \ {w}
        /\ IF WriterReady
           THEN /\ thr_empty' = FALSE
                /\ tx_log' = Append(tx_log, Ch(w))
                /\ tstate' = [tstate EXCEPT ![w] = "done"]
                /\ UNCHANGED write_waker_list
                /\ \E fin \in BOOLEAN :
                     SIGNAL_WORK_FINISH' = (SIGNAL_WORK_FINISH \/ fin)
           ELSE /\ write_waker_list' = WriterRegister(w)
                /\ tstate' = [tstate EXCEPT ![w] = "suspended"]
                /\ UNCHANGED <<thr_empty, tx_log, SIGNAL_WORK_FINISH>>
        /\ UNCHANGED <<rbr, inited, read_waker_list, read_buffer, result, woke_with>>
        /\ UNCHANGED <<runq, pc, SIGNAL_WORK_THREAD_MODE>>

\* a registration without the will_wake test
ReaderRegisterAlways(r) == Append(read_waker_list, r)
\* what the read operation's poll leaves in read_waker_list when it suspends
ReaderRegister(r) ==
    IF will_wake(r) THEN read_waker_list ELSE Append(read_waker_list, r)

\* the superseded read path: the poll probes the receiver itself
ReaderPollDirect(r) ==
    /\ ~panicked /\ mid = Idle /\ pc = "polling"
    /\ r \in Readers /\ r \in batch
    /\ IF ~BorrowOk("uart") THEN UartPanic
       ELSE
        /\ UartSession
        /\ batch' = batch \ {r}
        /\ woke_with' = [woke_with EXCEPT ![r] = NoByte]
        /\ IF rbr # <<>>
           THEN /\ rbr' = Tail(rbr)
                /\ result' = [result EXCEPT ![r] = Head(rbr)]
                /\ tstate' = [tstate EXCEPT ![r] = "done"]
                /\ UNCHANGED <<read_waker_list, SIGNAL_WORK_FINISH>>
           ELSE /\ read_waker_list' = ReaderRegister(r)
                /\ tstate' = [tstate EXCEPT ![r] = "suspended"]
                /\ UNCHANGED <<rbr, result, SIGNAL_WORK_FINISH>>
        /\ UNCHANGED <<thr_empty, tx_log, inited, write_waker_list, read_buffer>>
        /\ UNCHANGED <<runq, pc, SIGNAL_WORK_THREAD_MODE>>

\* AsyncCharReader::poll, run by the executor for a dequeued task
ReaderPoll(r) ==
    /\ ~panicked /\ mid = Idle /\ pc = "polling"
    /\ r \in Readers /\ r \in batch
    /\ IF ~BorrowOk("uart") THEN UartPanic
       ELSE
        /\ UartSession
        /\ batch' = batch \ {r}
        /\ woke_with' = [woke_with EXCEPT ![r] = NoByte]
        /\ IF read_buffer # <<>>
           THEN /\ read_buffer' = Tail(read_buffer)
                /\ result' = [result EXCEPT ![r] = Head(read_buffer)]
                /\ tstate' = [tstate EXCEPT ![r] = "done"]
                /\ UNCHANGED read_waker_list
                /\ \E fin \in BOOLEAN :
                     SIGNAL_WORK_FINISH' = (SIGNAL_WORK_FINISH \/ fin)
           ELSE /\ read_waker_list' = ReaderRegister(r)
                /\ tstate' = [tstate EXCEPT ![r] = "suspended"]
                /\ UNCHANGED <<read_buffer, result, SIGNAL_WORK_FINISH>>
        /\ UNCHANGED <<hwvars, write_waker_list>>
        /\ UNCHANGED <<runq, pc, SIGNAL_WORK_THREAD_MODE>>

\* handle_irq pops a reader's waker: a byte was read and a reader waits
ReadPop == data_available /\ read_waker_list # <<>>
\* a transmit half that pops without asking whether the transmitter is ready
WritePopAny == write_waker_list # <<>>
\* handle_irq pops a writer's waker: the transmitter is ready and a writer waits
WritePop == writable /\ write_waker_list # <<>>
\* the waker pop_front yields
ReadFront == Head(read_waker_list)
\* a pop from the back of write_waker_list
WriteBack == write_waker_list[Len(write_waker_list)]
WriteFront == Head(write_waker_list)
\* a receive half that wakes the reader without buffering the byte
IrqReadBufferNoPush == read_buffer
\* read_buffer after the receive half of handle_irq
IrqReadBuffer ==
    IF ReadPop THEN Append(read_buffer, Head(rbr)) ELSE read_buffer
\* a dispatcher that wakes every waiting reader for one byte
IrqWokenAll ==
    (IF ReadPop THEN {read_waker_list[i] : i \in 1..Len(read_waker_list)} ELSE {})
    \cup (IF WritePop THEN {WriteFront} ELSE {})
\* the tasks whose wakers handle_irq wakes
IrqWoken ==
    (IF ReadPop THEN {ReadFront} ELSE {}) \cup (IF WritePop THEN {WriteFront} ELSE {})

\* AsyncNS16550a::handle_irq, entered from the interrupt vector: the trap
\* clears the interrupt enable, the return from it sets it again
HandleIrq ==
    /\ ~panicked /\ sie /\ inited
    /\ LET m1 == enter([Masking EXCEPT !.sie = FALSE]) IN
       IF ~BorrowOk("uart")
       THEN /\ SetMasking(m1)
            /\ panicked' = TRUE
            /\ UNCHANGED <<borrowed, guards, mid, sie0>>
            /\ UNCHANGED <<hwvars, devvars, taskvars, execvars>>
       ELSE
        /\ SetMasking([exit(m1) EXCEPT !.sie = TRUE])
        /\ rbr' = IF data_available THEN Tail(rbr) ELSE rbr
        /\ read_buffer' = IrqReadBuffer
        /\ read_waker_list' =
             IF ReadPop THEN Tail(read_waker_list) ELSE read_waker_list
        /\ woke_with' =
             IF ReadPop THEN [woke_with EXCEPT ![ReadFront] = Head(rbr)]
             ELSE woke_with
        /\ write_waker_list' =
             IF WritePop THEN Tail(write_waker_list) ELSE write_waker_list
        /\ runq' = runq \cup Enqueued(IrqWoken)
        /\ SIGNAL_WORK_THREAD_MODE' =
             (SIGNAL_WORK_THREAD_MODE \/ Enqueued(IrqWoken) # {})
        /\ pc' = IF pc = "halted" THEN "poll" ELSE pc
        /\ UNCHANGED <<borrowed, guards, mid, panicked, sie0>>
        /\ UNCHANGED <<thr_empty, tx_log, inited, tstate, result>>
        /\ UNCHANGED <<batch, SIGNAL_WORK_FINISH>>

\* ------------------------------------------------------------- the hardware
\* a byte arrives on the line; one arriving at a full receiver is lost
HwReceive(b) ==
    /\ ~panicked /\ inited /\ Len(rbr) < MaxFifo
    /\ rbr' = Append(rbr, b)
    /\ UNCHANGED <<thr_empty, tx_log, inited>>
    /\ UNCHANGED <<syncvars, devvars, taskvars, execvars>>

\* the transmitter has shifted the byte out: THR_EMPTY is set again
HwTransmitDone ==
    /\ ~panicked /\ ~thr_empty
    /\ thr_empty' = TRUE
    /\ UNCHANGED <<rbr, tx_log, inited>>
    /\ UNCHANGED <<syncvars, devvars, taskvars, execvars>>

\* ------------------------------------------------------------ Executor::run
\* init(self.inner.spawner()): the initializer spawns the initial tasks
RunInit(S) ==
    /\ ~panicked /\ mid = Idle /\ pc = "run"
    /\ S \subseteq Tasks /\ S # {} /\ Cardinality(S) <= MaxSpawn
    /\ tstate' = [t \in Tasks |-> IF t \in S THEN "new" ELSE "unspawned"]
    /\ runq' = S
    /\ SIGNAL_WORK_THREAD_MODE' = TRUE
    /\ pc' = "poll"
    /\ UNCHANGED <<batch, SIGNAL_WORK_FINISH, result, woke_with>>
    /\ UNCHANGED <<syncvars, hwvars, devvars>>

\* self.inner.poll() starts: the run queue is dequeued as a whole
PollBegin ==
    /\ ~panicked /\ mid = Idle /\ pc = "poll"
    /\ batch' = runq
    /\ runq' = {}
    /\ pc' = "polling"
    /\ UNCHANGED <<SIGNAL_WORK_THREAD_MODE, SIGNAL_WORK_FINISH>>
    /\ UNCHANGED <<syncvars, hwvars, devvars, taskvars>>

\* a loop that leaves on the wake flag
LoopBreakOnWork == SIGNAL_WORK_THREAD_MODE

\* the loop's break condition
LoopBreak == SIGNAL_WORK_FINISH

\* self.inner.poll() returns and SIGNAL_WORK_FINISH is loaded
PollEnd ==
    /\ ~panicked /\ mid = Idle /\ pc = "polling" /\ batch = {}
    /\ pc' = IF LoopBreak THEN "done" ELSE "chk_work"
    /\ UNCHANGED <<runq, batch, SIGNAL_WORK_THREAD_MODE, SIGNAL_WORK_FINISH>>
    /\ UNCHANGED <<syncvars, hwvars, devvars, taskvars>>

\* SIGNAL_WORK_THREAD_MODE is loaded
CheckWork ==
    /\ ~panicked /\ mid = Idle /\ pc = "chk_work"
    /\ pc' = IF SIGNAL_WORK_THREAD_MODE THEN "clear" ELSE "pre_wfi"
    /\ UNCHANGED <<runq, batch, SIGNAL_WORK_THREAD_MODE, SIGNAL_WORK_FINISH>>
    /\ UNCHANGED <<syncvars, hwvars, devvars, taskvars>>

\* SIGNAL_WORK_THREAD_MODE.store(false)
ClearWork ==
    /\ ~panicked /\ mid = Idle /\ pc = "clear"
    /\ SIGNAL_WORK_THREAD_MODE' = FALSE
    /\ pc' = "poll"
    /\ UNCHANGED <<runq, batch, SIGNAL_WORK_FINISH>>
    /\ UNCHANGED <<syncvars, hwvars, devvars, taskvars>>

\* the wfi instruction is executed: the processor halts
Wfi ==
    /\ ~panicked /\ mid = Idle /\ pc = "pre_wfi"
    /\ pc' = "halted"
    /\ UNCHANGED <<runq, batch, SIGNAL_WORK_THREAD_MODE, SIGNAL_WORK_FINISH>>
    /\ UNCHANGED <<syncvars, hwvars, devvars, taskvars>>

\* wfi resumes on an interrupt that is pending but masked
WfiMasked ==
    /\ ~panicked /\ pc = "halted" /\ ~sie /\ inited /\ data_available
    /\ pc' = "poll"
    /\ UNCHANGED <<runq, batch, SIGNAL_WORK_THREAD_MODE, SIGNAL_WORK_FINISH>>
    /\ UNCHANGED <<syncvars, hwvars, devvars, taskvars>>

Next ==
    \/ \E c \in IntrFreeCells : ExclusiveAccessEnter(c)
    \/ ExclusiveAccessBorrow
    \/ \E c \in IntrFreeCells : DropBorrow(c)
    \/ DropExit
    \/ \E c \in IntrFreeCells : ExclusiveSession(c)
    \/ \E c \in SafeCells : SafeExclusiveAccess(c)
    \/ \E c \in SafeCells : SafeDrop(c)
    \/ DeviceInit
    \/ \E w \in Writers : WriterPoll(w)
    \/ \E r \in Readers : ReaderPoll(r)
    \/ HandleIrq
    \/ \E b \in Bytes : HwReceive(b)
    \/ HwTransmitDone
    \/ \E S \in SUBSET Tasks : RunInit(S)
    \/ PollBegin
    \/ PollEnd
    \/ CheckWork
    \/ ClearWork
    \/ Wfi
    \/ WfiMasked

Spec == Init /\ [][Next]_vars

\* ------------------------------------------- the driver under any caller
\* AsyncCharWriter::poll called by whoever holds the future, whether or not
\* its waker has fired: console.rs drives write(c) with block_on, which
\* polls again and again until the poll returns Ready
AsyncCharWriterPoll(w) ==
    /\ ~panicked /\ mid = Idle /\ pc = "run"
    /\ w \in Writers /\ tstate[w] # "done"
    /\ WriterReady \/ Len(write_waker_list) < MaxWaiters
    /\ IF ~BorrowOk("uart") THEN UartPanic
       ELSE
        /\ UartSession
        /\ runq' = runq \ {w}
        /\ IF WriterReady
           THEN /\ thr_empty' = FALSE
                /\ tx_log' = Append(tx_log, Ch(w))
                /\ tstate' = [tstate EXCEPT ![w] = "done"]
                /\ UNCHANGED write_waker_list
           ELSE /\ write_waker_list' = WriterRegister(w)
                /\ tstate' = [tstate EXCEPT ![w] = "suspended"]
                /\ UNCHANGED <<thr_empty, tx_log>>
        /\ UNCHANGED <<rbr, inited, read_waker_list, read_buffer, result, woke_with>>
        /\ UNCHANGED <<batch, pc, SIGNAL_WORK_THREAD_MODE, SIGNAL_WORK_FINISH>>

\* AsyncCharReader::poll called by whoever holds the future, whether or not
\* its waker has fired
AsyncCharReaderPoll(r) ==
    /\ ~panicked /\ mid = Idle /\ pc = "run"
    /\ r \in Readers /\ tstate[r] # "done"
    /\ IF ~BorrowOk("uart") THEN UartPanic
       ELSE
        /\ UartSession
        /\ runq' = runq \ {r}
        /\ woke_with' = [woke_with EXCEPT ![r] = NoByte]
        /\ IF read_buffer # <<>>
           THEN /\ read_buffer' = Tail(read_buffer)
                /\ result' = [result EXCEPT ![r] = Head(read_buffer)]
                /\ tstate' = [tstate EXCEPT ![r] = "done"]
                /\ UNCHANGED read_waker_list
           ELSE /\ read_waker_list' = ReaderRegister(r)
                /\ tstate' = [tstate EXCEPT ![r] = "suspended"]
                /\ UNCHANGED <<read_buffer, result>>
        /\ UNCHANGED <<hwvars, write_waker_list>>
        /\ UNCHANGED <<batch, pc, SIGNAL_WORK_THREAD_MODE, SIGNAL_WORK_FINISH>>

\* the driver's operations in any order: init once, then polls of the
\* operations, the dispatcher and the hardware
DriverNext ==
    \/ DeviceInit
    \/ \E w \in Writers : AsyncCharWriterPoll(w)
    \/ \E r \in Readers : AsyncCharReaderPoll(r)
    \/ HandleIrq
    \/ \E b \in Bytes : HwReceive(b)
    \/ HwTransmitDone

DriverSpec == Init /\ [][DriverNext]_vars

\* ------------------------------------------------------------------ claims
\* the step is the poll of task t by the executor
Polled(t) == t \in batch /\ t \notin batch'
\* the step is a handle_irq that read a byte from the receiver
IrqRead == rbr # <<>> /\ rbr' = Tail(rbr)
\* occurrences of x in s
Count(s, x) == Cardinality({i \in 1..Len(s) : s[i] = x})

\* C1: after the exit() that matches the outermost enter(), at any nesting
\* depth, nested_level is 0 and the interrupt enable is what it was before
\* that enter(); a step that leaves no enter() unmatched leaves it as it was.
C1_MaskingRestored ==
    [][(~panicked' /\ Depth' = 0) =>
         /\ nested_level' = 0
         /\ sie' = (IF Depth = 0 THEN sie ELSE sie0)]_vars

\* an enter()/exit() sequence that began with interrupts enabled has ended
C1_Witness ==
    /\ pc = "boot" /\ Depth = 0 /\ nested_level = 0
    /\ intr_enable_before_masking /\ sie

\* C2: while a guard of an interrupt-free cell is live, interrupts are
\* disabled and handle_irq cannot run, whatever guards were dropped before.
C2_GuardMasksIrq ==
    IntrGuards > 0 => (~sie /\ ~ENABLED HandleIrq)

\* a guard is live, interrupts were enabled before it was taken, a byte and
\* a waiting reader are there for the dispatcher, which stays masked
C2_Witness ==
    /\ guards["other"] = 1 /\ mid = Idle /\ intr_enable_before_masking
    /\ inited /\ data_available /\ read_waker_list # <<>> /\ ~sie

\* C3: a byte handle_irq reads while no reader waits is appended to
\* read_buffer; read_buffer only loses its head, to the poll that completes
\* with that byte, and only grows at its tail.
C3_ByteRetained ==
    [][/\ (IrqRead /\ read_waker_list = <<>>) =>
            read_buffer' = Append(read_buffer, Head(rbr))
       /\ \A r \in Readers : (Polled(r) /\ read_buffer # <<>>) =>
            /\ result'[r] = Head(read_buffer)
            /\ read_buffer' = Tail(read_buffer)
       /\ (\A r \in Readers : ~Polled(r)) =>
            \/ read_buffer' = read_buffer
            \/ \E b \in Bytes : read_buffer' = Append(read_buffer, b)]_vars

\* both readers are suspended and woken, each by its own byte, none polled yet
BothWoken ==
    \A r \in Readers : tstate[r] = "suspended" /\ woke_with[r] # NoByte

\* C4: with both readers suspended and two bytes delivered by two handle_irq
\* runs, whichever reader is polled first completes with the byte whose
\* delivery woke it (the first-suspended with the first byte), and so does
\* the other one after it.
C4_ReadersInOrder ==
    [][\A r \in Readers :
         (/\ Polled(r) /\ tstate[r] = "suspended" /\ woke_with[r] # NoByte
          /\ \/ BothWoken
             \/ \A o \in Readers \ {r} : tstate[o] = "done") =>
         (tstate'[r] = "done" /\ result'[r] = woke_with[r])]_vars

\* C5: a poll of a write operation that finds THR_EMPTY clear writes nothing
\* and suspends; one that finds it set writes the byte once and completes;
\* THR is written by nothing else, so a write operation has written its byte
\* once when it is done and never before.
C5_WriterWritesOnce ==
    /\ [][\A w \in Writers :
            /\ Polled(w) =>
                 IF thr_empty
                 THEN /\ tstate'[w] = "done"
                      /\ tx_log' = Append(tx_log, Ch(w))
                      /\ ~thr_empty'
                 ELSE /\ tstate'[w] = "suspended"
                      /\ tx_log' = tx_log
            /\ Count(tx_log', Ch(w)) # Count(tx_log, Ch(w)) =>
                 (Polled(w) /\ thr_empty)]_vars
    /\ [](\A w \in Writers :
            Count(tx_log, Ch(w)) = (IF tstate[w] = "done" THEN 1 ELSE 0))

\* the first write operation is done, the second one still suspended
C5_Witness ==
    /\ tstate["W1"] = "done" /\ tstate["W2"] = "suspended"
    /\ tx_log = <<65>> /\ write_waker_list = <<"W2">>

OnlyReader(r) == {t \in Readers : tstate[t] # "unspawned"} = {r}

\* C7: with one read operation, suspended with nothing buffered, a
\* handle_irq that reads 0x48 buffers it and wakes the reader (run queue and
\* wake flag), the buffer is then left alone until the reader is polled, and
\* that poll completes with 0x48.
C7_ReadScenario ==
    [][\A r \in Readers : OnlyReader(r) =>
         /\ (/\ IrqRead /\ Head(rbr) = 72 /\ tstate[r] = "suspended"
             /\ read_waker_list = <<r>> /\ read_buffer = <<>>) =>
              /\ read_buffer' = <<72>> /\ read_waker_list' = <<>>
              /\ r \in runq' /\ SIGNAL_WORK_THREAD_MODE'
              /\ woke_with'[r] = 72
         /\ (woke_with[r] = 72 /\ ~Polled(r)) =>
              (read_buffer' = read_buffer /\ woke_with'[r] = 72
               /\ (r \in runq' \/ r \in batch'))
         /\ (woke_with[r] = 72 /\ Polled(r)) =>
              (tstate'[r] = "done" /\ result'[r] = 72)]_vars

\* the only read operation has completed with 0x48
C7_Witness ==
    OnlyReader("R1") /\ tstate["R1"] = "done" /\ result["R1"] = 72

\* the step is a handle_irq that pops the waker of write operation w
WriterWoken(w) ==
    /\ write_waker_list # <<>> /\ Head(write_waker_list) = w
    /\ write_waker_list' = Tail(write_waker_list)

\* C8: with W1 then W2 suspended, a handle_irq that finds the transmitter
\* ready wakes W1 alone and writes nothing; W1's next poll writes 0x41 and
\* completes; W2 stays suspended, unqueued and without a write of 0x42 in
\* every step that is not a handle_irq popping its own waker.
C8_WriteScenario ==
    [][/\ (write_waker_list = <<"W1", "W2">> /\ write_waker_list' # write_waker_list) =>
            /\ thr_empty /\ write_waker_list' = <<"W2">>
            /\ "W1" \in runq' /\ "W2" \notin runq' \cup batch'
            /\ tx_log' = tx_log /\ thr_empty'
       /\ (/\ Polled("W1") /\ tstate["W1"] = "suspended"
           /\ tstate["W2"] = "suspended" /\ write_waker_list = <<"W2">>) =>
            /\ tstate'["W1"] = "done" /\ tx_log' = Append(tx_log, 65)
            /\ write_waker_list' = <<"W2">>
       /\ (/\ tstate["W2"] = "suspended" /\ ~Queued("W2")
           /\ ~(WriterWoken("W2") /\ thr_empty)) =>
            /\ tstate'["W2"] = "suspended" /\ "W2" \notin runq' \cup batch'
            /\ Count(tx_log', 66) = Count(tx_log, 66)]_vars

\* W1 has been woken ahead of W2, which is still registered, nothing written
C8_Witness ==
    /\ tstate["W1"] = "suspended" /\ "W1" \in batch
    /\ tstate["W2"] = "suspended" /\ write_waker_list = <<"W2">>
    /\ tx_log = <<>> /\ thr_empty

\* C9: no cell ever has two guards and its borrow is live exactly while its
\* guard is held; a guard is handed out only for a cell with no live borrow,
\* and an exclusive_access that finds the borrow live panics.
C9_OneGuardPerCell ==
    /\ [](\A c \in Cells : guards[c] <= 1 /\ (borrowed[c] <=> guards[c] = 1))
    /\ [][/\ \A c \in Cells : guards'[c] > guards[c] => ~borrowed[c]
          /\ (mid.op = "acq" /\ borrowed[mid.cell] /\ syncvars' # syncvars) =>
               (panicked' /\ guards' = guards)
          /\ (panicked' /\ ~panicked) => \E c \in Cells : borrowed[c]]_vars

\* an exclusive_access of a cell whose guard is live has panicked
C9_Witness ==
    panicked /\ mid.op = "acq" /\ guards[mid.cell] = 1

\* C10: the loop is never halted in wfi while a task woken since its last
\* poll waits in the run queue or the wake flag is still set.
C10_NoLostWakeup ==
    pc = "halted" => (runq = {} /\ ~SIGNAL_WORK_THREAD_MODE)

C14_BorrowInsideMasking ==
    /\ \A c \in IntrFreeCells : borrowed[c] => (nested_level >= 1 /\ ~sie)
    /\ mid.op \in {"acq", "rel"} => (nested_level >= 1 /\ ~sie)

\* one guard is live while a second cell is between enter() and borrow_mut()
C14_Witness ==
    /\ mid.op = "acq" /\ mid.cell = "other" /\ borrowed["uart"]
    /\ ~borrowed["other"] /\ nested_level = 2

\* the step is the enter() of a thread-mode exclusive_access
EnterStep == mid = Idle /\ mid'.op = "acq"

C16_SessionReleases ==
    [][/\ (HandleIrq /\ ~panicked') =>
            /\ ~borrowed'["uart"] /\ borrowed' = borrowed /\ guards' = guards
            /\ nested_level' = nested_level /\ sie' = sie
       /\ \A c \in IntrFreeCells : (ExclusiveSession(c) /\ ~panicked') =>
            /\ ~borrowed'[c] /\ borrowed' = borrowed /\ guards' = guards
            /\ nested_level' = nested_level /\ sie' = sie]_vars

\* the dispatcher has run its session and woken a reader
C16_Witness ==
    /\ woke_with["R1"] # NoByte /\ read_buffer # <<>>
    /\ ~borrowed["uart"] /\ nested_level = 0 /\ sie

\* C17: read_buffer grows and the receiver is read only in handle_irq; the
\* poll of a read operation leaves the receiver alone and either leaves
\* read_buffer alone or completes with its head and removes it; the poll of
\* a write operation leaves read_buffer and read_waker_list alone.
C17_OnlyIrqFillsBuffer ==
    [][/\ Len(read_buffer') > Len(read_buffer) => HandleIrq
       /\ rbr # <<>> /\ rbr' = Tail(rbr) => HandleIrq
       /\ \A r \in Readers : Polled(r) =>
            /\ rbr' = rbr
            /\ \/ read_buffer' = read_buffer /\ tstate'[r] = "suspended"
               \/ /\ read_buffer # <<>> /\ read_buffer' = Tail(read_buffer)
                  /\ tstate'[r] = "done" /\ result'[r] = Head(read_buffer)
       /\ \A w \in Writers : Polled(w) =>
            (read_buffer' = read_buffer /\ read_waker_list' = read_waker_list
             /\ rbr' = rbr)]_vars

\* one read operation has consumed the buffered byte, the other still waits
\* while a new byte sits in the receiver
C17_Witness ==
    /\ tstate["R1"] = "done" /\ tstate["R2"] = "suspended"
    /\ read_buffer = <<>> /\ rbr # <<>> /\ read_waker_list = <<"R2">>

\* handle_irq would find no byte and no writer to wake
NothingActionable == ~data_available /\ ~(thr_empty /\ write_waker_list # <<>>)

C19_CounterMatchesGuards ==
    /\ nested_level >= 0
    /\ ~panicked => nested_level = Depth
    /\ mid.op = "rel" => nested_level >= 1

\* two guards live, none being acquired or released
C19_Witness ==
    mid = Idle /\ IntrGuards = 2 /\ nested_level = 2

\* the waker of task t is in the waiter list of its kind
Registered(t) ==
    IF t \in Readers
    THEN \E i \in 1..Len(read_waker_list) : read_waker_list[i] = t
    ELSE \E i \in 1..Len(write_waker_list) : write_waker_list[i] = t

\* C20: every suspended operation has its waker in its waiter list or has
\* been woken and queued since; a poll that returns Pending leaves the
\* waker registered.
C20_NoStrandedWaiter ==
    /\ [](\A t \in Tasks : tstate[t] = "suspended" => (Registered(t) \/ Queued(t)))
    /\ [][\A t \in Tasks :
            (Polled(t) /\ tstate'[t] = "suspended") => Registered(t)']_vars

\* W1 was registered, found the transmitter busy again after W2's write and
\* is registered again
C20_Witness ==
    /\ tstate["W1"] = "suspended" /\ write_waker_list = <<"W1">>
    /\ tstate["W2"] = "done" /\ tx_log = <<66>> /\ ~thr_empty
    /\ ~Queued("W1")

\* C12: read_waker_list never holds the waker of one task twice, and the
\* poll of a read operation that finds read_buffer empty appends the waker
\* only when the list holds none for the task, however often it is polled.
C12_ReadWakersDistinct ==
    /\ [](\A i, j \in 1..Len(read_waker_list) :
            read_waker_list[i] = read_waker_list[j] => i = j)
    /\ [][\A r \in Readers :
            (AsyncCharReaderPoll(r) /\ read_buffer = <<>> /\ ~panicked') =>
              /\ Count(read_waker_list', r) = 1
              /\ read_waker_list' =
                   IF Count(read_waker_list, r) = 0
                   THEN Append(read_waker_list, r) ELSE read_waker_list]_vars

\* both read operations are suspended with their wakers registered and R1
\* can be polled again: that poll finds its waker in the list
C12_Witness ==
    /\ read_waker_list = <<"R1", "R2">> /\ read_buffer = <<>>
    /\ tstate["R1"] = "suspended" /\ tstate["R2"] = "suspended"
    /\ ENABLED AsyncCharReaderPoll("R1")

\* C13: the poll of a write operation that finds the transmitter busy
\* appends one waker whether or not the list holds one for the task, so
\* each such poll makes the task's entries one more.
C13_WriteWakersPile ==
    [][\A w \in Writers :
         (AsyncCharWriterPoll(w) /\ ~thr_empty /\ ~panicked') =>
           /\ write_waker_list' = Append(write_waker_list, w)
           /\ Count(write_waker_list', w) = Count(write_waker_list, w) + 1]_vars

\* one suspended write operation, never woken, has three wakers in the list
C13_Witness ==
    /\ write_waker_list = <<"W1", "W1", "W1">>
    /\ tstate["W1"] = "suspended" /\ "W1" \notin runq
    /\ tstate["W2"] = "done"

====
